---- MODULE Spec2Model ----
(***************************************************************************)
(* Model of the USAspending fetcher: the paginated collection calls of     *)
(* USASpendingClient (fetchAllAwards / fetchAllTransactions), the batch    *)
(* fetch by identifier (fetchAwardsByIds), the two-stage pipeline of       *)
(* CompleteFetcher.fetchComplete and the record normalizers.               *)
(*                                                                         *)
(* JavaScript strings are sequences of one-character strings, so that      *)
(* length, digit tests, split and the code-unit order of `>` are computed  *)
(* as the code computes them.  null and undefined are two values that are  *)
(* no string.  A raw API record is a TLA+ record holding only the keys     *)
(* the source sent: an absent key reads as undefined.                      *)
(*                                                                         *)
(* The code is a single async thread: every action below is one            *)
(* continuation, from the event that resumes the thread (the call of the   *)
(* command, a page response, a page error) to the next await, which is     *)
(* always the POST of the next page.                                       *)
(***************************************************************************)
EXTENDS Integers, Sequences, FiniteSets, TLC

\* ------------------------------------------------------------------------
\* Bounds of the model
\* ------------------------------------------------------------------------
\* raw transactions the source supplies to one collection call
MaxTx == 3
\* raw award records the source supplies to one fetchAwardsByIds call
MaxAwards == 3
\* pages after which the source stops answering hasNext = true
MaxPages == 2
\* the same for the single-stage commands, whose pages are full-size
MaxBulkPages == 3
\* pages of one call for which a source held to nothing is followed
MaxRequests == 4

\* ------------------------------------------------------------------------
\* JavaScript values
\* ------------------------------------------------------------------------
NULL == <<"null">>
UNDEF == <<"undefined">>

\* x is truthy (x a string, null or undefined)
Truthy(x) == x # NULL /\ x # UNDEF /\ x # <<>>

\* a || b on strings
Or(a, b) == IF Truthy(a) THEN a ELSE b

\* raw[key], undefined when the key is absent
Get(raw, key) == IF key \in DOMAIN raw THEN raw[key] ELSE UNDEF

\* raw[key] || 0 for a numeric key
NumOr0(raw, key) == IF key \in DOMAIN raw THEN raw[key] ELSE 0

\* the code units in increasing order
Alphabet == << "-", "0", "1", "2", "3", "4", "5", "6", "7", "8", "9",
               "A", "B", "C", "D", "E", "F", "G", "H", "I", "J", "K", "L", "M",
               "N", "O", "P", "Q", "R", "S", "T", "U", "V", "W", "X", "Y", "Z",
               "_" >>

Ord(c) == CHOOSE i \in 1..Len(Alphabet) : Alphabet[i] = c

Digits == {"0", "1", "2", "3", "4", "5", "6", "7", "8", "9"}

\* a < b on strings: comparison by code units, a proper prefix is smaller
StrLess(a, b) ==
    \E i \in 1..Len(b) :
        /\ i <= Len(a) + 1
        /\ \A j \in 1..(i - 1) : a[j] = b[j]
        /\ (i = Len(a) + 1 \/ Ord(a[i]) < Ord(b[i]))

\* a > b on strings
StrGreater(a, b) == StrLess(b, a)

\* /^\d+$/.test(s)
IsDigits(s) == Len(s) >= 1 /\ \A i \in 1..Len(s) : s[i] \in Digits

\* s.split('_')
RECURSIVE SplitFrom(_, _, _)
SplitFrom(s, i, cur) ==
    IF i > Len(s) THEN <<cur>>
    ELSE IF s[i] = "_" THEN <<cur>> \o SplitFrom(s, i + 1, <<>>)
    ELSE SplitFrom(s, i + 1, Append(cur, s[i]))

Split(s) == SplitFrom(s, 1, <<>>)

\* Math.ceil(n / d) for n >= 0, d >= 1
Ceil(n, d) == (n + d - 1) \div d

\* responses.flatMap(r => r.results)
RECURSIVE FlatResults(_)
FlatResults(resps) ==
    IF resps = <<>> THEN <<>>
    ELSE Head(resps).results \o FlatResults(Tail(resps))

\* [...new Set(s)]: the distinct values in order of first occurrence
RECURSIVE Distinct(_)
Distinct(s) ==
    IF s = <<>> THEN <<>>
    ELSE LET d == Distinct(SubSeq(s, 1, Len(s) - 1))
             x == s[Len(s)]
         IN IF \E i \in 1..Len(d) : d[i] = x THEN d ELSE Append(d, x)

\* ------------------------------------------------------------------------
\* Normalizers
\* ------------------------------------------------------------------------
normalizeAward(apiAward) ==
    [ award_id |-> Or(Get(apiAward, "Award ID"),
                      Or(Get(apiAward, "internal_id"),
                         Get(apiAward, "generated_internal_id"))),
      award_type |-> Or(Get(apiAward, "Contract Award Type"),
                        Or(Get(apiAward, "Award Type"),
                           <<"U", "n", "k", "n", "o", "w", "n">>)),
      award_amount |-> NumOr0(apiAward, "Award Amount"),
      award_date |-> Or(Get(apiAward, "Award Date"), <<>>),
      start_date |-> Or(Get(apiAward, "Start Date"), NULL),
      end_date |-> Or(Get(apiAward, "End Date"), NULL),
      last_modified_date |-> Or(Get(apiAward, "Last Modified Date"), NULL),
      base_obligation_date |-> Or(Get(apiAward, "Base Obligation Date"), NULL),
      awarding_agency |-> Or(Get(apiAward, "Awarding Agency"), <<>>),
      awarding_sub_agency |-> Or(Get(apiAward, "Awarding Sub Agency"), NULL),
      funding_agency |-> Or(Get(apiAward, "Funding Agency"), NULL),
      recipient_name |-> Or(Get(apiAward, "Recipient Name"), <<>>),
      recipient_uei |-> Or(Get(apiAward, "Recipient UEI"), NULL),
      recipient_business_categories |-> {},
      award_description |-> Or(Get(apiAward, "Description"), <<>>),
      naics_code |-> Or(Get(apiAward, "naics_code"), NULL),
      psc_code |-> Or(Get(apiAward, "product_or_service_code"), NULL),
      place_of_performance_state |->
          Or(Get(apiAward, "Place of Performance State Code"), NULL),
      source_url |->
          IF Truthy(Get(apiAward, "internal_id"))
          THEN [page |-> "award", id |-> Get(apiAward, "internal_id")]
          ELSE [page |-> "search", id |-> Get(apiAward, "Award ID")] ]

\* apiAwards.map(normalizeAward), a new array
normalizeAwards(apiAwards) ==
    <<>> \o [i \in 1..Len(apiAwards) |-> normalizeAward(apiAwards[i])]

\* the five-entry action type table; <<>> stands for "not in the table"
actionTypeMap(code) ==
    CASE code = <<"A">> -> <<"N", "E", "W">>
      [] code = <<"B">> -> <<"C", "O", "N", "T", "I", "N", "U", "A", "T", "I", "O", "N">>
      [] code = <<"C">> -> <<"R", "E", "V", "I", "S", "I", "O", "N">>
      [] code = <<"D">> -> <<"F", "U", "N", "D", "I", "N", "G", "_",
                             "A", "D", "J", "U", "S", "T", "M", "E", "N", "T">>
      [] code = <<"E">> -> <<"C", "O", "R", "R", "E", "C", "T", "I", "O", "N">>
      [] OTHER -> <<>>

\* template-literal rendering of a string, null or undefined
Render(x) ==
    IF x = NULL THEN <<"n", "u", "l", "l">>
    ELSE IF x = UNDEF THEN <<"u", "n", "d", "e", "f", "i", "n", "e", "d">>
    ELSE x

\* the identifier is read from the fourth segment
extractAwardId_fourthSegment(apiTransaction) ==
    LET awardId == Get(apiTransaction, "Award ID")
        genId == Get(apiTransaction, "generated_internal_id")
    IN IF Truthy(awardId) /\ Len(awardId) <= 4 /\ IsDigits(awardId)
       THEN IF Truthy(genId)
            THEN LET parts == Split(genId)
                 IN IF Len(parts) >= 6
                    THEN IF Truthy(parts[4]) /\ Len(parts[4]) > 4
                         THEN parts[4]
                         ELSE awardId
                    ELSE awardId
            ELSE awardId
       ELSE awardId

\* the award identifier of a transaction, recovered from generated_internal_id
\* when the API sent a short all-digit one
extractAwardId(apiTransaction) ==
    LET awardId == Get(apiTransaction, "Award ID")
        genId == Get(apiTransaction, "generated_internal_id")
    IN IF Truthy(awardId) /\ Len(awardId) <= 4 /\ IsDigits(awardId)
       THEN IF Truthy(genId)
            THEN LET parts == Split(genId)
                 IN IF Len(parts) >= 6
                    THEN IF Truthy(parts[5]) /\ Len(parts[5]) > 4
                         THEN parts[5]
                         ELSE awardId
                    ELSE awardId
            ELSE awardId
       ELSE awardId

normalizeTransaction(apiTransaction) ==
    LET awardId == extractAwardId(apiTransaction)
        actionType == Or(Get(apiTransaction, "Action Type"), <<>>)
    IN
    [ transaction_id |->
          Or(Get(apiTransaction, "internal_id"),
             Or(Get(apiTransaction, "generated_internal_id"),
                Render(Get(apiTransaction, "Award ID")) \o <<"_">>
                    \o Render(Get(apiTransaction, "Action Date")))),
      award_id |-> awardId,
      generated_internal_id |-> Or(Get(apiTransaction, "generated_internal_id"), NULL),
      action_date |-> Or(Get(apiTransaction, "Action Date"), <<>>),
      action_type |-> actionType,
      action_type_description |->
          Or(actionTypeMap(actionType),
             Or(actionType, <<"U", "n", "k", "n", "o", "w", "n">>)),
      modification_number |-> Get(apiTransaction, "Mod"),
      federal_action_obligation |-> NumOr0(apiTransaction, "Transaction Amount"),
      total_dollars_obligated |-> NumOr0(apiTransaction, "Transaction Amount"),
      award_type |-> Or(Get(apiTransaction, "Award Type"),
                        <<"U", "n", "k", "n", "o", "w", "n">>),
      award_description |-> Or(Get(apiTransaction, "Transaction Description"), <<>>),
      period_of_performance_start_date |-> Get(apiTransaction, "Issued Date"),
      period_of_performance_current_end_date |->
          Get(apiTransaction, "Last Date to Order"),
      awarding_agency_name |-> Or(Get(apiTransaction, "Awarding Agency"), <<>>),
      awarding_sub_agency_name |-> Get(apiTransaction, "Awarding Sub Agency"),
      funding_agency_name |-> Get(apiTransaction, "Funding Agency"),
      recipient_name |-> Or(Get(apiTransaction, "Recipient Name"), <<>>),
      recipient_uei |-> Get(apiTransaction, "Recipient UEI"),
      naics_code |-> Get(apiTransaction, "naics_code"),
      product_or_service_code |-> Get(apiTransaction, "product_or_service_code"),
      place_of_performance_state |-> Get(apiTransaction, "pop_state_code"),
      source_url |-> [page |-> "award", id |-> Render(awardId)] ]

\* apiTransactions.map(normalizeTransaction), a new array
normalizeTransactions(apiTransactions) ==
    <<>> \o [i \in 1..Len(apiTransactions) |-> normalizeTransaction(apiTransactions[i])]

\* ------------------------------------------------------------------------
\* Pure steps of the pipeline
\* ------------------------------------------------------------------------
KNOWN_API_LIMIT == 10000

\* checkForTruncation without the test of how the loop stopped
checkForTruncation_ignoresHasNext(total, pagesFetched, stopped, page_size) ==
    /\ total = KNOWN_API_LIMIT
    /\ pagesFetched = Ceil(KNOWN_API_LIMIT, page_size)

\* USASpendingClient.checkForTruncation: the value of hitLimit
checkForTruncation(total, pagesFetched, stopped, page_size) ==
    /\ total = KNOWN_API_LIMIT
    /\ pagesFetched = Ceil(KNOWN_API_LIMIT, page_size)
    /\ stopped

ALL_AWARD_TYPES ==
    << <<"A">>, <<"B">>, <<"C">>, <<"D">>, <<"0", "2">>, <<"0", "3">>,
       <<"0", "4">>, <<"0", "5">>, <<"0", "6">>, <<"0", "7">>, <<"0", "8">>,
       <<"0", "9">>, <<"1", "0">>, <<"1", "1">> >>

\* date window of buildFilters, dates counted in days
timePeriod(cfg, daysBack) ==
    LET days == IF daysBack # 0 THEN daysBack ELSE cfg.rolling_days
    IN << [start_date |-> cfg.end_date - days, end_date |-> cfg.end_date] >>

\* TransactionFetcher.buildFilters
buildTransactionFilters(cfg, daysBack) ==
    [ award_type_codes |-> cfg.award_types,
      award_amounts |-> << [lower_bound |-> cfg.min_amount] >>,
      time_period |-> timePeriod(cfg, daysBack) ]

\* DataFetcher.buildFilters
buildAwardFilters(cfg, daysBack) ==
    [ award_type_codes |->
          IF Len(cfg.award_types) > 0 THEN cfg.award_types ELSE ALL_AWARD_TYPES,
      award_amounts |-> << [lower_bound |-> cfg.min_amount] >>,
      time_period |-> timePeriod(cfg, daysBack) ]

\* the loop step i += batchSize, one too far
nextBatchStart_skips(i, batchSize) == i + batchSize + 1

\* the loop step of fetchAwardsByIds: i += batchSize
nextBatchStart(i, batchSize) == i + batchSize

\* slice(i, i + batchSize + 1): a batch that runs into the next one
batchSlice_overlaps(ids, i, batchSize) ==
    SubSeq(ids, i + 1, IF i + batchSize + 1 < Len(ids) THEN i + batchSize + 1 ELSE Len(ids))

\* the batch of fetchAwardsByIds that starts at index i (0-based): slice(i, i + batchSize)
batchSlice(ids, i, batchSize) ==
    SubSeq(ids, i + 1, IF i + batchSize < Len(ids) THEN i + batchSize ELSE Len(ids))

\* the filters of one batch of fetchAwardsByIds
batchFilters(cfg, ids, i, batchSize) ==
    [ award_ids |-> batchSlice(ids, i, batchSize),
      award_type_codes |->
          IF Len(cfg.award_types) > 0 THEN cfg.award_types ELSE ALL_AWARD_TYPES ]

\* the new-event filter without its test of the action type
isNewTransaction_modOnly(tx) == tx.modification_number = <<"0">>

\* the new-event filter taking every modification number but null for new
isNewTransaction_anyMod(tx) ==
    \/ tx.modification_number # NULL
    \/ tx.action_type_description = <<"N", "E", "W">>

\* the new-event filter of fetchTransactionsStage
isNewTransaction(tx) ==
    \/ tx.modification_number = <<"0">>
    \/ tx.action_type_description = <<"N", "E", "W">>

\* the amount threshold with > for >=
transactionsStage_strict(cfg, normalized) ==
    LET newTransactions == SelectSeq(normalized, isNewTransaction)
        minAmount == cfg.min_amount
        passes(tx) == tx.federal_action_obligation > minAmount
        filteredTransactions ==
            IF minAmount > 0 THEN SelectSeq(newTransactions, passes)
            ELSE newTransactions
        uniqueAwardIds ==
            Distinct([i \in 1..Len(filteredTransactions) |->
                          filteredTransactions[i].award_id])
    IN [ totalTransactions |-> Len(normalized),
         newTransactions |-> filteredTransactions,
         uniqueAwardIds |-> uniqueAwardIds ]

\* the identifiers taken before the amount threshold
transactionsStage_idsOfNew(cfg, normalized) ==
    LET newTransactions == SelectSeq(normalized, isNewTransaction)
        minAmount == cfg.min_amount
        passes(tx) == tx.federal_action_obligation >= minAmount
        filteredTransactions ==
            IF minAmount > 0 THEN SelectSeq(newTransactions, passes)
            ELSE newTransactions
        uniqueAwardIds ==
            Distinct([i \in 1..Len(newTransactions) |->
                          newTransactions[i].award_id])
    IN [ totalTransactions |-> Len(normalized),
         newTransactions |-> filteredTransactions,
         uniqueAwardIds |-> uniqueAwardIds ]

\* the retained transactions collapsed to one per record
transactionsStage_deduplicated(cfg, normalized) ==
    LET newTransactions == SelectSeq(normalized, isNewTransaction)
        minAmount == cfg.min_amount
        passes(tx) == tx.federal_action_obligation >= minAmount
        filteredTransactions ==
            IF minAmount > 0 THEN Distinct(SelectSeq(newTransactions, passes))
            ELSE Distinct(newTransactions)
        uniqueAwardIds ==
            Distinct([i \in 1..Len(filteredTransactions) |->
                          filteredTransactions[i].award_id])
    IN [ totalTransactions |-> Len(normalized),
         newTransactions |-> filteredTransactions,
         uniqueAwardIds |-> uniqueAwardIds ]

\* fetchTransactionsStage after the transactions have arrived
transactionsStage(cfg, normalized) ==
    LET newTransactions == SelectSeq(normalized, isNewTransaction)
        minAmount == cfg.min_amount
        passes(tx) == tx.federal_action_obligation >= minAmount
        filteredTransactions ==
            IF minAmount > 0 THEN SelectSeq(newTransactions, passes)
            ELSE newTransactions
        uniqueAwardIds ==
            Distinct([i \in 1..Len(filteredTransactions) |->
                          filteredTransactions[i].award_id])
    IN [ totalTransactions |-> Len(normalized),
         newTransactions |-> filteredTransactions,
         uniqueAwardIds |-> uniqueAwardIds ]

\* no comparison: the snapshot that arrives last wins
replacesExisting_lastWins(existing, award) == TRUE

\* the comparison turned round: the older snapshot wins
replacesExisting_keepsOlder(existing, award) ==
    LET existingDate == Or(existing.last_modified_date, <<>>)
        currentDate == Or(award.last_modified_date, <<>>)
    IN StrLess(currentDate, existingDate)

\* whether the award replaces the one the map holds for its award_id
replacesExisting(existing, award) ==
    LET existingDate == Or(existing.last_modified_date, <<>>)
        currentDate == Or(award.last_modified_date, <<>>)
    IN StrGreater(currentDate, existingDate)

\* the awardMap of fetchAwardsByIdStage after the first n awards, as the
\* sequence of its values in insertion order of their keys
RECURSIVE awardMapAfter(_, _)
awardMapAfter(fetched, n) ==
    IF n = 0 THEN <<>>
    ELSE LET m == awardMapAfter(fetched, n - 1)
             award == fetched[n]
             at == {i \in 1..Len(m) : m[i].award_id = award.award_id}
         IN IF at = {} THEN Append(m, award)
            ELSE LET i == CHOOSE j \in at : TRUE
                 IN IF replacesExisting(m[i], award)
                    THEN [m EXCEPT ![i] = award]
                    ELSE m

\* the deduplication of fetchAwardsByIdStage
dedupeAwards(fetched) == awardMapAfter(fetched, Len(fetched))

\* the identifiers of a list of awards (new Set(awards.map(a => a.award_id)))
awardIdSet(awards) == {awards[i].award_id : i \in 1..Len(awards)}

\* the filter without its negation: the fetched identifiers are listed
missingIdsOf_inverted(ids, awards) ==
    LET fetchedIds == awardIdSet(awards)
        found(id) == id \in fetchedIds
    IN SelectSeq(ids, found)

\* as many identifiers, from the end of the list, as awards are lacking
missingIdsOf_byCount(ids, awards) ==
    LET lacking == IF Len(ids) > Len(awards) THEN Len(ids) - Len(awards) ELSE 0
    IN SubSeq(ids, Len(ids) - lacking + 1, Len(ids))

\* the missing identifiers of fetchAwardsByIdStage
missingIdsOf(ids, awards) ==
    LET fetchedIds == awardIdSet(awards)
        missing(id) == id \notin fetchedIds
    IN SelectSeq(ids, missing)

\* analyzeJoin without the guard on an empty transaction list
analyzeJoin_unguarded(transactions, awards) ==
    LET ids == awardIdSet(awards)
        matched == Cardinality({i \in 1..Len(transactions) :
                                    transactions[i].award_id \in ids})
    IN [ matched |-> matched,
         unmatched |-> Len(transactions) - matched,
         matchRate |-> [num |-> matched * 100, den |-> Len(transactions)] ]

\* analyzeJoin with the two branches of the tally exchanged
analyzeJoin_swapped(transactions, awards) ==
    LET ids == awardIdSet(awards)
        matched == Cardinality({i \in 1..Len(transactions) :
                                    transactions[i].award_id \notin ids})
        unmatched == Cardinality({i \in 1..Len(transactions) :
                                      transactions[i].award_id \in ids})
    IN [ matched |-> matched,
         unmatched |-> unmatched,
         matchRate |-> IF Len(transactions) > 0
                       THEN [num |-> matched * 100, den |-> Len(transactions)]
                       ELSE [num |-> 0, den |-> 1] ]

\* analyzeJoin tallying the matched award identifiers, not the transactions
analyzeJoin_distinctIds(transactions, awards) ==
    LET ids == awardIdSet(awards)
        matched == Cardinality({transactions[i].award_id : i \in 1..Len(transactions)}
                                   \cap ids)
        unmatched == Cardinality({transactions[i].award_id : i \in 1..Len(transactions)}
                                     \ ids)
    IN [ matched |-> matched,
         unmatched |-> unmatched,
         matchRate |-> IF Len(transactions) > 0
                       THEN [num |-> matched * 100, den |-> Len(transactions)]
                       ELSE [num |-> 0, den |-> 1] ]

\* CompleteFetcher.analyzeJoin; matchRate is the fraction num / den, since
\* (matched / length) * 100 need not be an integer
analyzeJoin(transactions, awards) ==
    LET ids == awardIdSet(awards)
        matched == Cardinality({i \in 1..Len(transactions) :
                                    transactions[i].award_id \in ids})
        unmatched == Cardinality({i \in 1..Len(transactions) :
                                      transactions[i].award_id \notin ids})
    IN [ matched |-> matched,
         unmatched |-> unmatched,
         matchRate |-> IF Len(transactions) > 0
                       THEN [num |-> matched * 100, den |-> Len(transactions)]
                       ELSE [num |-> 0, den |-> 1] ]

\* the CompleteFetchResult of fetchComplete, from the result of stage 1 and
\* the raw awards accumulated by fetchAwardsByIds
completeResult(cfg, daysBack, txr, rawAwards) ==
    LET fetched == normalizeAwards(rawAwards)
        awards == dedupeAwards(fetched)
        missingIds == missingIdsOf(txr.uniqueAwardIds, awards)
        joinAnalysis == analyzeJoin(txr.newTransactions, awards)
    IN [ transactions |-> txr.newTransactions,
         awards |-> awards,
         stats |->
           [ totalTransactions |-> txr.totalTransactions,
             newTransactions |-> Len(txr.newTransactions),
             uniqueAwardIds |-> Len(txr.uniqueAwardIds),
             awardsRequested |-> Len(txr.uniqueAwardIds),
             awardsFetched |-> Len(awards),
             awardsMissing |-> Len(txr.uniqueAwardIds) - Len(awards),
             missingAwardIds |-> missingIds,
             transactionsWithAward |-> joinAnalysis.matched,
             transactionsWithoutAward |-> joinAnalysis.unmatched,
             joinRate |-> joinAnalysis.matchRate,
             dateRange |-> timePeriod(cfg, daysBack)[1],
             filters |->
               [ awardTypes |-> cfg.award_types,
                 minAmount |-> cfg.min_amount,
                 rollingDays |-> IF daysBack # 0 THEN daysBack
                                 ELSE cfg.rolling_days ] ] ]

\* sum of f over s[lo..hi], halving the range
RECURSIVE SumRange(_, _, _, _)
SumRange(s, field, lo, hi) ==
    IF lo > hi THEN 0
    ELSE IF lo = hi THEN s[lo][field]
    ELSE LET mid == (lo + hi) \div 2
         IN SumRange(s, field, lo, mid) + SumRange(s, field, mid + 1, hi)

\* generateSummary that never sets the flag
generateSummary_noFlag(awards, filters) ==
    LET types == {awards[i].award_type : i \in 1..Len(awards)}
    IN [ total_records |-> Len(awards),
         date_range |-> filters.time_period[1],
         total_amount |-> SumRange(awards, "award_amount", 1, Len(awards)),
         by_type |-> [t \in types |->
                        Cardinality({i \in 1..Len(awards) : awards[i].award_type = t})],
         truncated |-> FALSE,
         truncation_reason |-> "undefined" ]

\* DataFetcher.generateSummary
generateSummary(awards, filters) ==
    LET types == {awards[i].award_type : i \in 1..Len(awards)}
        truncated == Len(awards) = 10000
    IN [ total_records |-> Len(awards),
         date_range |-> filters.time_period[1],
         total_amount |-> SumRange(awards, "award_amount", 1, Len(awards)),
         by_type |-> [t \in types |->
                        Cardinality({i \in 1..Len(awards) : awards[i].award_type = t})],
         truncated |-> truncated,
         truncation_reason |-> IF truncated THEN "API pagination limit (10,000 records)"
                               ELSE "undefined" ]

\* generateTransactionSummary
generateTransactionSummary(transactions, filters) ==
    LET actionTypes ==
            {Or(transactions[i].action_type_description,
                <<"U", "n", "k", "n", "o", "w", "n">>) : i \in 1..Len(transactions)}
        awardTypes ==
            {Or(transactions[i].award_type,
                <<"U", "n", "k", "n", "o", "w", "n">>) : i \in 1..Len(transactions)}
    IN [ total_records |-> Len(transactions),
         date_range |-> filters.time_period[1],
         total_obligation |->
             SumRange(transactions, "federal_action_obligation", 1, Len(transactions)),
         by_action_type |->
             [t \in actionTypes |->
                Cardinality({i \in 1..Len(transactions) :
                    Or(transactions[i].action_type_description,
                       <<"U", "n", "k", "n", "o", "w", "n">>) = t})],
         by_award_type |->
             [t \in awardTypes |->
                Cardinality({i \in 1..Len(transactions) :
                    Or(transactions[i].award_type,
                       <<"U", "n", "k", "n", "o", "w", "n">>) = t})],
         unique_awards |->
             Cardinality({transactions[i].award_id : i \in 1..Len(transactions)}) ]

\* ------------------------------------------------------------------------
\* The source: the records and pages the API may answer with
\* ------------------------------------------------------------------------
IdA == <<"A">>
IdB == <<"B">>
IdZ == <<"Z">>
ShortId == <<"0", "0", "0", "1">>
\* CONT_AWD_0001_9700_W52P1_9700
CompositeId ==
    <<"C", "O", "N", "T", "_", "A", "W", "D", "_", "0", "0", "0", "1", "_",
      "9", "7", "0", "0", "_", "W", "5", "2", "P", "1", "_", "9", "7", "0", "0">>

\* raw records are written key :> value @@ ..., their keys being the API's
RawTransactions ==
    { ("Award ID" :> IdA) @@ ("Mod" :> <<"0">>) @@ ("Action Type" :> <<"C">>)
          @@ ("Transaction Amount" :> 900000),
      ("Award ID" :> IdB) @@ ("Mod" :> NULL) @@ ("Action Type" :> <<"A">>)
          @@ ("Transaction Amount" :> 899999),
      ("Award ID" :> IdA) @@ ("Mod" :> <<"0", "0", "1">>) @@ ("Action Type" :> <<"C">>)
          @@ ("Transaction Amount" :> 900000),
      ("Award ID" :> ShortId) @@ ("generated_internal_id" :> CompositeId)
          @@ ("Mod" :> <<"0", "0", "1">>) @@ ("Action Type" :> <<"A">>)
          @@ ("Transaction Amount" :> 900000) }

\* 2024-01-09 and 2024-01-10
DateEarly == <<"2", "0", "2", "4", "-", "0", "1", "-", "0", "9">>
DateLate == <<"2", "0", "2", "4", "-", "0", "1", "-", "1", "0">>

RawAwards ==
    { ("Award ID" :> IdA),
      ("Award ID" :> IdA) @@ ("Last Modified Date" :> DateEarly),
      ("Award ID" :> IdA) @@ ("Last Modified Date" :> DateLate),
      ("Award ID" :> <<>>) @@ ("internal_id" :> IdZ) @@ ("Last Modified Date" :> <<>>) }

\* the record every full-size page of the single-stage commands repeats
BulkAward == ("Award ID" :> IdA) @@ ("Award Amount" :> 1)
BulkTransaction == ("Award ID" :> IdA) @@ ("Transaction Amount" :> 1)

SeqsUpTo(S, n) == UNION {[1..k -> S] : k \in 0..n}

\* a raw record that holds the key only when the API sent a value for it
Field(key, value) == IF value = UNDEF THEN <<>> ELSE key :> value

\* CONT_AWD_0001_9700_W52P1J13G0027_9700 and its fifth segment
LongId == <<"W", "5", "2", "P", "1", "J", "1", "3", "G", "0", "0", "2", "7">>
LongCompositeId ==
    <<"C", "O", "N", "T", "_", "A", "W", "D", "_", "0", "0", "0", "1", "_",
      "9", "7", "0", "0", "_">> \o LongId \o <<"_", "9", "7", "0", "0">>

\* the Award ID values of the sampled transactions: absent, empty, short and
\* all digits, five digits, short with a letter, and a full identifier
SampleAwardIds ==
    { UNDEF, <<>>, ShortId, ShortId \o <<"2">>, <<"W", "5", "2", "P">>, IdA }

\* their generated_internal_id values: absent, null, six segments with a long
\* fifth one, six with a fifth of five characters, six with a fifth of four,
\* five segments, and six with an empty fifth
SampleCompositeIds ==
    { UNDEF, NULL, LongCompositeId, CompositeId,
      <<"C", "O", "N", "T", "_", "A", "W", "D", "_", "0", "0", "0", "1", "_",
        "9", "7", "0", "0", "_", "W", "5", "2", "P", "_", "9", "7", "0", "0">>,
      <<"C", "O", "N", "T", "_", "A", "W", "D", "_", "0", "0", "0", "1", "_",
        "9", "7", "0", "0", "_">> \o LongId,
      <<"C", "O", "N", "T", "_", "A", "W", "D", "_", "0", "0", "0", "1", "_",
        "9", "7", "0", "0", "_", "_", "9", "7", "0", "0">> }

\* the records the single-stage commands receive on small pages: every field
\* but the identifiers is absent
SampleTransactions ==
    { Field("Award ID", a) @@ Field("generated_internal_id", g) :
        a \in SampleAwardIds, g \in SampleCompositeIds }
SampleAwards ==
    { Field("Award ID", a) @@ Field("internal_id", z) :
        a \in {UNDEF, IdA}, z \in {UNDEF, IdZ} }

Min(a, b) == IF a < b THEN a ELSE b

\* ------------------------------------------------------------------------
\* State
\* ------------------------------------------------------------------------
VARIABLES
    command,            \* the CLI command that runs
    options,            \* its options (days: 0 when not given)
    config,             \* the loaded AppConfig: the values of the keys present
    configFile,         \* the keys the YAML configuration file holds
    pc,                 \* where the thread awaits: idle, fetch, fetchtx, stage1,
                        \* stage2, done (exit 0), failed (exit 1)
    inflight,           \* the POST awaited, NoRequest when none
    responses,          \* locals of fetchAllAwards / fetchAllTransactions
    currentPage,
    hasMore,
    totalFetched,
    stoppedByHasNext,
    awardIds,           \* locals of fetchAwardsByIds
    batchStart,         \* its loop index i
    allAwards,
    allTransactions,    \* what fetchTransactionsStage got from
                        \* TransactionFetcher.fetchTransactions
    txResult,           \* what fetchTransactionsStage returned
    result,             \* what fetchComplete returned, NoResult before
    summary,            \* the summary of fetch / fetch:transactions
    warnings,           \* truncation warnings displayed
    saved,              \* the files StorageService wrote, NoResult before
    stderr,             \* the diagnostics of console.error
    exitCode,           \* << >> while the process runs, then its exit status
    lastCall,           \* history: how the last finished collection call went
                        \* (n: how many calls have finished)
    batches             \* history: the batches of fetchAwardsByIds, their
                        \* award_ids filter and their outcome

vars == << command, options, config, configFile, pc, inflight, responses, currentPage, hasMore,
           totalFetched, stoppedByHasNext, awardIds, batchStart, allAwards,
           allTransactions, txResult, result, summary, warnings, saved, stderr,
           exitCode, lastCall, batches >>

NoRequest == [none |-> TRUE]
NoResult == [none |-> TRUE]

\* the values config/default.yml may hold for the keys the core reads;
\* pagination.max_records is at least 1
ConfigsOver(pageSizes, maxRecords, minAmounts) ==
    { [ page_size |-> ps, max_records |-> mr, min_amount |-> ma,
        award_types |-> << <<"A">>, <<"B">>, <<"C">>, <<"D">> >>,
        rolling_days |-> 7, end_date |-> 100, include_raw |-> FALSE ] :
      ps \in pageSizes, mr \in maxRecords, ma \in minAmounts }

\* the keys of the configuration the core reads
ConfigKeys ==
    { "api.base_url", "api.endpoint", "api.timeout", "eligibility.award_types",
      "eligibility.min_amount", "eligibility.rolling_days",
      "date_range.use_current_date", "date_range.fixed_end_date",
      "output.directory", "pagination.page_size", "pagination.max_records" }

\* validateConfig: the message of the error thrown, "ok" when none is
validateConfig(file) ==
    IF "api.base_url" \notin file THEN "Missing required config: api.base_url"
    ELSE IF "api.endpoint" \notin file THEN "Missing required config: api.endpoint"
    ELSE IF "eligibility.award_types" \notin file
         THEN "Missing required config: eligibility.award_types (must be an array)"
    ELSE IF "eligibility.min_amount" \notin file
         THEN "Missing required config: eligibility.min_amount"
    ELSE IF "eligibility.rolling_days" \notin file
         THEN "Missing required config: eligibility.rolling_days"
    ELSE IF "output.directory" \notin file
         THEN "Missing required config: output.directory"
    ELSE IF "pagination.page_size" \notin file
         THEN "Missing required config: pagination.page_size"
    ELSE "ok"

\* buildFilters can format its end date: use_current_date, false in the
\* files modelled and falsy when absent, sends it to fixed_end_date, and
\* format() throws on the invalid date made from an absent one
EndDateValid(file) == "date_range.fixed_end_date" \in file

\* the state in which a command is at the point start: "loading" before
\* loadConfig, "idle" once the configuration is loaded
InitState(commands, configs, files, start) ==
    /\ command \in commands
    /\ options = [days |-> 0]
    /\ config \in configs
    /\ configFile \in files
    /\ pc = start
    /\ inflight = NoRequest
    /\ responses = <<>>
    /\ currentPage = 1
    /\ hasMore = TRUE
    /\ totalFetched = 0
    /\ stoppedByHasNext = FALSE
    /\ awardIds = <<>>
    /\ batchStart = 0
    /\ allAwards = <<>>
    /\ allTransactions = <<>>
    /\ txResult = [totalTransactions |-> 0, newTransactions |-> <<>>,
                   uniqueAwardIds |-> <<>>]
    /\ result = NoResult
    /\ summary = NoResult
    /\ warnings = <<>>
    /\ saved = NoResult
    /\ stderr = <<>>
    /\ exitCode = <<>>
    /\ lastCall = [n |-> 0]
    /\ batches = <<>>

\* a command whose complete configuration file has been loaded
InitWith(commands, configs) == InitState(commands, configs, {ConfigKeys}, "idle")

\* fetch:complete on small pages
Init == InitWith({"fetch:complete"}, ConfigsOver({1, 2}, {2, 3}, {0, 900000}))

\* fetch:complete before loadConfig, on a file that holds any of the keys
InitConfig ==
    InitState({"fetch:complete"}, ConfigsOver({2}, {2}, {0}), SUBSET ConfigKeys, "loading")

\* fetch and fetch:transactions on pages of thousands of records
InitFetch ==
    InitWith({"fetch", "fetch:transactions"},
             ConfigsOver({4000, 5000}, {10000, 20000}, {0}))

\* fetch and fetch:transactions on pages of one record, the raw files kept
\* (output.include_raw)
InitNormalize ==
    InitWith({"fetch", "fetch:transactions"},
             {[c EXCEPT !.include_raw = TRUE] : c \in ConfigsOver({1}, {1, 2}, {0})})

\* fetch and fetch:transactions on small pages with a low ceiling
InitPaging ==
    InitWith({"fetch", "fetch:transactions"}, ConfigsOver({1, 2}, {2, 3}, {0}))

\* ------------------------------------------------------------------------
\* Storage and process exit
\* ------------------------------------------------------------------------
\* StorageService.saveAwards: the files written, by filename prefix
saveAwards(cfg, raw, normalized, awardSummary) ==
    IF cfg.include_raw
    THEN [awards_raw |-> raw, awards_normalized |-> normalized,
          awards_summary |-> awardSummary]
    ELSE [awards_normalized |-> normalized, awards_summary |-> awardSummary]

\* StorageService.saveTransactions
saveTransactions(cfg, raw, normalized, transactionSummary) ==
    IF cfg.include_raw
    THEN [transactions_raw |-> raw, transactions_normalized |-> normalized,
          transactions_summary |-> transactionSummary]
    ELSE [transactions_normalized |-> normalized,
          transactions_summary |-> transactionSummary]

\* StorageService.saveCompleteFetch
saveCompleteFetch(res) ==
    [ complete_transactions |-> res.transactions,
      complete_awards |-> res.awards,
      complete_stats |-> res.stats ]

\* the action callback of a command returns: the process ends with status 0
ExitsNormally == exitCode' = <<0>> /\ stderr' = stderr

\* the catch of a command swallowing the error
ExitsWithError_silent == exitCode' = <<0>> /\ stderr' = stderr

\* the catch of a command: console.error('Error:', ...) and process.exit(1)
ExitsWithError == exitCode' = <<1>> /\ stderr' = Append(stderr, "Error:")

\* fetch:complete on pages of thousands of records
InitBulkComplete ==
    InitWith({"fetch:complete"}, ConfigsOver({4000, 5000}, {10000, 20000}, {0, 900000}))

\* ------------------------------------------------------------------------
\* The collection call
\* ------------------------------------------------------------------------
\* entry of fetchAllAwards / fetchAllTransactions up to the POST of page 1
StartCollection(endpoint, filters) ==
    /\ responses' = <<>>
    /\ currentPage' = 1
    /\ hasMore' = TRUE
    /\ totalFetched' = 0
    /\ stoppedByHasNext' = FALSE
    /\ inflight' = [endpoint |-> endpoint, filters |-> filters, page |-> 1,
                    limit |-> config.page_size]

\* the end of a collection call that leaves its last request awaited
EndCollection_leavesRequest ==
    /\ responses' = <<>>
    /\ currentPage' = 1
    /\ hasMore' = TRUE
    /\ totalFetched' = 0
    /\ stoppedByHasNext' = FALSE
    /\ inflight' = inflight

\* the locals of a collection call that is over
EndCollection ==
    /\ responses' = <<>>
    /\ currentPage' = 1
    /\ hasMore' = TRUE
    /\ totalFetched' = 0
    /\ stoppedByHasNext' = FALSE
    /\ inflight' = NoRequest

\* batchSize of fetchAwardsByIdStage
batchSizeOf(cfg) == cfg.page_size

\* the for loop of fetchAwardsByIds from index i on, and, once it is over,
\* the rest of fetchAwardsByIdStage and fetchComplete
RunBatches(ids, i, all, txr, blog) ==
    /\ awardIds' = ids
    /\ batchStart' = i
    /\ allAwards' = all
    /\ txResult' = txr
    /\ IF i < Len(ids)
       THEN LET filters == batchFilters(config, ids, i, batchSizeOf(config))
            IN /\ pc' = "stage2"
               /\ StartCollection("award", filters)
               /\ batches' = Append(blog, [ids |-> filters.award_ids,
                                           status |-> "running", results |-> <<>>])
               /\ result' = result
               /\ UNCHANGED << saved, stderr, exitCode >>
       ELSE /\ pc' = "done"
            /\ EndCollection
            /\ batches' = blog
            /\ result' = completeResult(config, options.days, txr, all)
            /\ saved' = saveCompleteFetch(result')
            /\ ExitsNormally

\* fetchAwardsByIdStage is entered with what fetchTransactionsStage returned
Stage2Starts(txr) == RunBatches(txr.uniqueAwardIds, 0, <<>>, txr, <<>>)

\* TransactionFetcher.fetchTransactions returned the normalized transactions
\* to fetchTransactionsStage: the rest of stage 1, then stage 2
Stage1Returns(normalized) ==
    /\ allTransactions' = normalized
    /\ Stage2Starts(transactionsStage(config, normalized))

\* the fetch command once DataFetcher.fetchAwards returned: the summary is
\* generated and the files are saved
FetchSaves(raw, normalized, filters) ==
    /\ summary' = generateSummary(normalized, filters)
    /\ saved' = saveAwards(config, raw, normalized, summary')

\* the fetch:transactions command once fetchTransactions returned
FetchTransactionsSaves(raw, normalized, filters) ==
    /\ summary' = generateTransactionSummary(normalized, filters)
    /\ saved' = saveTransactions(config, raw, normalized, summary')

\* the pages received before the failure are kept
failedBatchAwards_keepsPages(all, resps) == all \o FlatResults(resps)

\* the batch of a failed collection call contributes nothing
failedBatchAwards(all, resps) == all

\* fetchAllAwards / fetchAllTransactions returned: checkForTruncation, then
\* the caller goes on
CollectionReturns(resps, total, stopped) ==
    LET results == FlatResults(resps)
        hitLimit == checkForTruncation(total, Len(resps), stopped, config.page_size)
    IN
    /\ warnings' = IF hitLimit
                   THEN Append(warnings, [totalFetched |-> total,
                                          dataType |-> inflight.endpoint])
                   ELSE warnings
    /\ lastCall' = [n |-> lastCall.n + 1, status |-> "returned", pages |-> Len(resps),
                    total |-> Len(results),
                    lastHasNext |-> resps[Len(resps)].hasNext,
                    warned |-> hitLimit]
    /\ CASE pc = "stage1" ->
              /\ Stage1Returns(normalizeTransactions(results))
              /\ UNCHANGED summary
         [] pc = "stage2" ->
              /\ RunBatches(awardIds, nextBatchStart(batchStart, batchSizeOf(config)),
                            allAwards \o results, txResult,
                            [batches EXCEPT ![Len(batches)].status = "ok",
                                            ![Len(batches)].results = results])
              /\ UNCHANGED << summary, allTransactions >>
         [] pc = "fetch" ->
              /\ FetchSaves(results, normalizeAwards(results), inflight.filters)
              /\ ExitsNormally
              /\ pc' = "done"
              /\ EndCollection
              /\ UNCHANGED << awardIds, batchStart, allAwards, allTransactions, txResult,
                              result, batches >>
         [] pc = "fetchtx" ->
              /\ FetchTransactionsSaves(results, normalizeTransactions(results),
                                        inflight.filters)
              /\ ExitsNormally
              /\ pc' = "done"
              /\ EndCollection
              /\ UNCHANGED << awardIds, batchStart, allAwards, allTransactions, txResult,
                              result, batches >>
    /\ UNCHANGED << command, options, config, configFile >>

\* the loop condition without the safety ceiling
continues_ignoresCeiling(more, total, cfg) == more

\* the loop condition of fetchAllAwards / fetchAllTransactions
continues(more, total, cfg) == more /\ total < cfg.max_records

\* the sizes of the pages of the single-stage commands: empty, full, and what
\* is left of 10000 records after the full pages
BulkLengths(page_size) == {0, page_size, KNOWN_API_LIMIT % page_size}

\* the run asks for pages of thousands of records, which the source answers
\* for the transaction endpoint with full-size pages
AsksBulkPages(cfg) == cfg.page_size >= KNOWN_API_LIMIT \div MaxBulkPages

\* the pages the source may answer the awaited request with
SourcePages ==
    LET mayHaveNext(maxPages) == IF currentPage < maxPages THEN BOOLEAN ELSE {FALSE}
    IN
    CASE pc = "stage1" /\ ~AsksBulkPages(config) ->
           { [results |-> r, hasNext |-> h] :
               r \in SeqsUpTo(RawTransactions, Min(config.page_size, MaxTx - totalFetched)),
               h \in mayHaveNext(MaxPages) }
      [] pc = "stage1" /\ AsksBulkPages(config) ->
           { [results |-> [i \in 1..n |-> BulkTransaction], hasNext |-> h] :
               n \in BulkLengths(config.page_size), h \in mayHaveNext(MaxBulkPages) }
      [] pc = "stage2" ->
           { [results |-> r, hasNext |-> h] :
               r \in SeqsUpTo(RawAwards,
                              Min(config.page_size,
                                  MaxAwards - Len(allAwards) - totalFetched)),
               h \in mayHaveNext(MaxPages) }
      [] pc = "fetch" /\ AsksBulkPages(config) ->
           { [results |-> [i \in 1..n |-> BulkAward], hasNext |-> h] :
               n \in BulkLengths(config.page_size), h \in mayHaveNext(MaxBulkPages) }
      [] pc = "fetch" /\ ~AsksBulkPages(config) ->
           { [results |-> r, hasNext |-> h] :
               r \in SeqsUpTo(SampleAwards, config.page_size),
               h \in mayHaveNext(MaxPages) }
      [] pc = "fetchtx" /\ AsksBulkPages(config) ->
           { [results |-> [i \in 1..n |-> BulkTransaction], hasNext |-> h] :
               n \in BulkLengths(config.page_size), h \in mayHaveNext(MaxBulkPages) }
      [] pc = "fetchtx" /\ ~AsksBulkPages(config) ->
           { [results |-> r, hasNext |-> h] :
               r \in SeqsUpTo(SampleTransactions, config.page_size),
               h \in mayHaveNext(MaxPages) }

\* ------------------------------------------------------------------------
\* Actions
\* ------------------------------------------------------------------------
\* loadConfig: the file is read and validated; an error reaches the catch of
\* the command, which prints its message and exits with status 1
LoadConfig ==
    /\ pc = "loading"
    /\ IF validateConfig(configFile) = "ok"
       THEN /\ pc' = "idle"
            /\ UNCHANGED << stderr, exitCode >>
       ELSE /\ pc' = "failed"
            /\ stderr' = Append(stderr, validateConfig(configFile))
            /\ exitCode' = <<1>>
    /\ UNCHANGED << command, options, config, configFile, inflight, responses,
                    currentPage, hasMore, totalFetched, stoppedByHasNext, awardIds,
                    batchStart, allAwards, allTransactions, txResult, result,
                    summary, warnings, saved, lastCall, batches >>

\* fetch:complete is run: fetchComplete up to the POST of the first page of
\* transactions
StartComplete ==
    /\ pc = "idle"
    /\ command = "fetch:complete"
    /\ IF ~EndDateValid(configFile)
       THEN \* buildFilters throws
            /\ pc' = "failed"
            /\ ExitsWithError
            /\ UNCHANGED << command, options, config, configFile, inflight, responses,
                            currentPage, hasMore, totalFetched, stoppedByHasNext,
                            awardIds, batchStart, allAwards, allTransactions,
                            txResult, result, summary, warnings, saved, lastCall,
                            batches >>
       ELSE IF "pagination.max_records" \notin configFile
       THEN \* totalFetched < undefined is false: no page is requested and
            \* fetchAllTransactions returns no response
            /\ lastCall' = [n |-> lastCall.n + 1, status |-> "returned", pages |-> 0,
                            total |-> 0, lastHasNext |-> FALSE, warned |-> FALSE]
            /\ Stage1Returns(<<>>)
            /\ UNCHANGED << command, options, config, configFile, summary, warnings >>
       ELSE /\ pc' = "stage1"
            /\ StartCollection("transaction",
                               buildTransactionFilters(config, options.days))
            /\ UNCHANGED << command, options, config, configFile, awardIds,
                            batchStart, allAwards, allTransactions, txResult, result,
                            summary, warnings, saved, stderr, exitCode, lastCall,
                            batches >>

\* fetch is run: DataFetcher.fetchAwards up to the POST of the first page
StartFetch ==
    /\ pc = "idle"
    /\ command = "fetch"
    /\ pc' = "fetch"
    /\ StartCollection("award", buildAwardFilters(config, options.days))
    /\ UNCHANGED << command, options, config, configFile, awardIds, batchStart, allAwards,
                    allTransactions, txResult, result, summary, warnings, saved,
                    stderr, exitCode, lastCall, batches >>

\* fetch:transactions is run: TransactionFetcher.fetchTransactions up to the
\* POST of the first page
StartFetchTransactions ==
    /\ pc = "idle"
    /\ command = "fetch:transactions"
    /\ pc' = "fetchtx"
    /\ StartCollection("transaction", buildTransactionFilters(config, options.days))
    /\ UNCHANGED << command, options, config, configFile, awardIds, batchStart, allAwards,
                    allTransactions, txResult, result, summary, warnings, saved,
                    stderr, exitCode, lastCall, batches >>

\* the loop body of the collection call on the page received, then either
\* the POST of the next page or the return of the call and everything that
\* follows it up to the next POST
Receives(response) ==
    LET resps == Append(responses, response)
        total == totalFetched + Len(response.results)
        more == response.hasNext
        stopped == stoppedByHasNext \/ ~more
    IN IF continues(more, total, config)
       THEN /\ responses' = resps
            /\ totalFetched' = total
            /\ hasMore' = more
            /\ currentPage' = currentPage + 1
            /\ stoppedByHasNext' = stopped
            /\ inflight' = [inflight EXCEPT !.page = currentPage + 1]
            /\ UNCHANGED << command, options, config, configFile, pc, awardIds, batchStart,
                            allAwards, allTransactions, txResult, result,
                            summary, warnings, saved, stderr, exitCode,
                            lastCall, batches >>
       ELSE CollectionReturns(resps, total, stopped)

\* the awaited POST is answered with a page
Response ==
    /\ inflight # NoRequest
    /\ \E response \in SourcePages : Receives(response)

\* the pages of a source that is held to nothing: any number of records up to
\* the page size, and hasNext as it pleases, on every page
AnyPages ==
    { [results |-> [i \in 1..n |->
                       IF pc = "fetch" THEN BulkAward ELSE BulkTransaction],
       hasNext |-> h] :
        n \in 0..config.page_size, h \in BOOLEAN }

\* the awaited POST is answered by such a source, which is followed for the
\* first MaxRequests pages of a call
ResponseAny ==
    /\ inflight # NoRequest
    /\ currentPage <= MaxRequests
    /\ \E response \in AnyPages : Receives(response)

\* the failed page is posted again
Error_retries ==
    /\ inflight # NoRequest
    /\ lastCall' = [n |-> lastCall.n + 1, status |-> "threw", pages |-> currentPage,
                    total |-> 0, lastHasNext |-> FALSE, warned |-> FALSE]
    /\ UNCHANGED << command, options, config, configFile, pc, inflight, responses, currentPage,
                    hasMore, totalFetched, stoppedByHasNext, awardIds, batchStart,
                    allAwards, allTransactions, txResult, result, summary, warnings,
                    saved, stderr, exitCode, batches >>

\* the failure of a batch is not caught: it reaches the command like any other
Error_abortsRun ==
    /\ inflight # NoRequest
    /\ lastCall' = [n |-> lastCall.n + 1, status |-> "threw", pages |-> currentPage,
                    total |-> 0, lastHasNext |-> FALSE, warned |-> FALSE]
    /\ pc' = "failed"
    /\ EndCollection
    /\ ExitsWithError
    /\ batches' = IF pc = "stage2"
                  THEN [batches EXCEPT ![Len(batches)].status = "failed"]
                  ELSE batches
    /\ UNCHANGED << command, options, config, configFile, awardIds, batchStart,
                    allAwards, allTransactions, txResult, result, summary,
                    warnings, saved >>

\* the awaited POST fails (network error, non-2xx status, timeout): the
\* collection call throws; fetchAwardsByIds catches it and goes on with the
\* next batch, every other caller lets it reach the command, which exits 1
Error ==
    /\ inflight # NoRequest
    /\ lastCall' = [n |-> lastCall.n + 1, status |-> "threw", pages |-> currentPage,
                    total |-> 0, lastHasNext |-> FALSE, warned |-> FALSE]
    /\ IF pc = "stage2"
       THEN /\ RunBatches(awardIds, nextBatchStart(batchStart, batchSizeOf(config)),
                          failedBatchAwards(allAwards, responses), txResult,
                          [batches EXCEPT ![Len(batches)].status = "failed"])
            /\ UNCHANGED << command, options, config, configFile, allTransactions, summary,
                            warnings >>
       ELSE /\ pc' = "failed"
            /\ EndCollection
            /\ ExitsWithError
            /\ UNCHANGED << command, options, config, configFile, awardIds, batchStart,
                            allAwards, allTransactions, txResult, result, summary,
                            warnings, saved, batches >>

Next == StartComplete \/ Response \/ Error

NextFetch == StartFetch \/ StartFetchTransactions \/ Response \/ Error

Spec == Init /\ [][Next]_vars

SpecFetch == InitFetch /\ [][NextFetch]_vars

SpecNormalize == InitNormalize /\ [][NextFetch]_vars

NextPaging == StartFetch \/ StartFetchTransactions \/ ResponseAny \/ Error

\* the single-stage commands against a source held to nothing, every awaited
\* request being answered
SpecPaging == InitPaging /\ [][NextPaging]_vars /\ WF_vars(ResponseAny)

SpecBulkComplete == InitBulkComplete /\ [][Next]_vars

NextConfig == LoadConfig \/ StartComplete \/ Response \/ Error

SpecConfig == InitConfig /\ [][NextConfig]_vars

\* ------------------------------------------------------------------------
\* Properties
\* ------------------------------------------------------------------------
\* the awards fetchAwardsByIds returned to fetchAwardsByIdStage
fetchedAwards == normalizeAwards(allAwards)

\* a last_modified_date as a string, null being the least
DateKey(d) == IF d = NULL THEN <<>> ELSE d

Range(seq) == {seq[i] : i \in 1..Len(seq)}

RECURSIVE ConcatIds(_)
ConcatIds(blog) ==
    IF blog = <<>> THEN <<>>
    ELSE ConcatIds(SubSeq(blog, 1, Len(blog) - 1)) \o blog[Len(blog)].ids

RECURSIVE ConcatOkResults(_)
ConcatOkResults(blog) ==
    IF blog = <<>> THEN <<>>
    ELSE ConcatOkResults(SubSeq(blog, 1, Len(blog) - 1))
             \o (IF blog[Len(blog)].status = "ok" THEN blog[Len(blog)].results ELSE <<>>)

\* C1: when fetchComplete has returned, the deduplicated awards hold exactly
\* one record for every award_id among the fetched awards and none for any
\* other, and the record kept for an award_id is a fetched record whose
\* last_modified_date is not below that of any fetched record with the same
\* award_id, null counting as the least date.
C1_DedupKeepsLatest ==
    pc = "done" =>
        /\ awardIdSet(result.awards) = awardIdSet(fetchedAwards)
        /\ \A i, j \in 1..Len(result.awards) :
               result.awards[i].award_id = result.awards[j].award_id => i = j
        /\ \A i \in 1..Len(result.awards) :
               /\ result.awards[i] \in Range(fetchedAwards)
               /\ \A k \in 1..Len(fetchedAwards) :
                      fetchedAwards[k].award_id = result.awards[i].award_id =>
                          ~StrLess(DateKey(result.awards[i].last_modified_date),
                                   DateKey(fetchedAwards[k].last_modified_date))

\* a run in which three snapshots of one award were fetched, the latest
\* neither first nor last, and the latest was kept for them
C1_Witness ==
    /\ pc = "done"
    /\ Len(fetchedAwards) = 3
    /\ \A k \in 1..3 : fetchedAwards[k].award_id = IdA
    /\ fetchedAwards[1].last_modified_date = NULL
    /\ fetchedAwards[2].last_modified_date = DateLate
    /\ fetchedAwards[3].last_modified_date = DateEarly
    /\ Len(result.awards) = 1
    /\ result.awards[1].last_modified_date = DateLate

\* the three conditions of the truncation heuristic, read off the pages the
\* finished collection call received
TruncationConditions ==
    /\ lastCall.total = 10000
    /\ lastCall.pages = Ceil(10000, config.page_size)
    /\ lastCall.lastHasNext = FALSE

\* C2: when the collection call of fetch or fetch:transactions has returned,
\* the truncation warning has been displayed if and only if the call
\* accumulated 10000 records in ceil(10000 / page_size) pages and its last
\* page carried hasNext = false; it is displayed once, and never in a run
\* whose call failed.
C2_TruncationWarningIff ==
    /\ pc = "done" => (warnings # <<>> <=> TruncationConditions)
    /\ Len(warnings) <= 1
    /\ pc \in {"idle", "fetch", "fetchtx", "failed"} => warnings = <<>>

\* a finished fetch whose warning was displayed
C2_Witness ==
    /\ pc = "done"
    /\ warnings # <<>>
    /\ lastCall.total = 10000

\* C3: in every report of fetchComplete the join rate is a fraction between
\* 0 and 100 with a non-zero denominator, and it is 0 when no transaction
\* was returned.
C3_JoinRateInRange ==
    pc = "done" =>
        LET rate == result.stats.joinRate
        IN /\ rate.den > 0
           /\ 0 <= rate.num
           /\ rate.num <= 100 * rate.den
           /\ (result.transactions = <<>> => rate.num = 0)

\* a report over an empty transaction list although transactions were fetched
C3_Witness ==
    /\ pc = "done"
    /\ result.transactions = <<>>
    /\ result.stats.totalTransactions > 0
    /\ result.stats.joinRate.num = 0

\* C4: fetchAwardsByIds never starts more than ceil(N/B) collection calls,
\* and when it has returned it has started exactly ceil(N/B) of them, failed
\* ones included (none for N = 0).
C4_BatchCount ==
    LET total == Ceil(Len(awardIds), batchSizeOf(config))
    IN /\ Len(batches) <= total
       /\ pc = "done" => Len(batches) = total

\* a finished run over three identifiers in batches of two: two batches, the
\* first of which failed
C4_Witness ==
    /\ pc = "done"
    /\ Len(awardIds) = 3
    /\ batchSizeOf(config) = 2
    /\ Len(batches) = 2
    /\ batches[1].status = "failed"
    /\ batches[2].status = "ok"

\* C5: the awards accumulated by fetchAwardsByIds are the records of its
\* successful batches, in order, and nothing else; a failed batch does not
\* fail the run, and when the run has finished every batch after a failed
\* one has been queried.
C5_BatchIsolation ==
    /\ allAwards = ConcatOkResults(batches)
    /\ (\E k \in 1..Len(batches) : batches[k].status = "failed")
           => pc \in {"stage2", "done"}
    /\ pc = "done" =>
           /\ \A k \in 1..Len(batches) : batches[k].status \in {"ok", "failed"}
           /\ ConcatIds(batches) = awardIds

\* a finished run whose first batch failed on its second page and whose
\* second batch returned a record
C5_Witness ==
    /\ pc = "done"
    /\ Len(batches) = 2
    /\ batches[1].status = "failed"
    /\ batches[2].status = "ok"
    /\ batches[2].results # <<>>
    /\ allAwards = batches[2].results

\* the step in which a collection call throws
CallThrows == lastCall'.n = lastCall.n + 1 /\ lastCall'.status = "threw"

\* C6: a failed page request ends its collection call: nothing the call had
\* fetched reaches the caller, and the request awaited afterwards, if any,
\* is page 1 of the call of another batch, never the failed page again nor a
\* later page of the failed call; outside fetchAwardsByIds the failure ends
\* the run without a result.
C6_PageFailureAborts ==
    /\ [][CallThrows =>
            /\ allAwards' = allAwards
            /\ txResult' = txResult
            /\ summary' = summary
            /\ \/ inflight' = NoRequest
               \/ /\ inflight'.page = 1
                  /\ inflight'.filters # inflight.filters
            /\ pc # "stage2" =>
                   /\ pc' = "failed"
                   /\ inflight' = NoRequest
                   /\ result' = NoResult]_vars
    /\ [](pc = "failed" => inflight = NoRequest /\ result = NoResult /\ summary = NoResult)

\* a collection call that threw on its second page
C6_Witness ==
    /\ lastCall.n >= 1
    /\ lastCall.status = "threw"
    /\ lastCall.pages = 2

C8_NoForeignAward ==
    \A k \in 1..Len(fetchedAwards) : fetchedAwards[k].award_id \in Range(awardIds)

\* C9: the award_ids filters of the batches started so far are consecutive
\* slices of the input list: each but the last of the ceil(N/B) batches holds
\* B identifiers, the last holds N - B * (ceil(N/B) - 1), and together the
\* batches of a finished run are the input list, every identifier being in
\* exactly one of them.
C9_BatchesPartition ==
    LET N == Len(awardIds)
        B == batchSizeOf(config)
    IN /\ \A k \in 1..Len(batches) :
              Len(batches[k].ids) = IF k < Ceil(N, B) THEN B ELSE N - B * (Ceil(N, B) - 1)
       /\ SubSeq(awardIds, 1, Len(ConcatIds(batches))) = ConcatIds(batches)
       /\ pc = "done" =>
              /\ ConcatIds(batches) = awardIds
              /\ \A id \in Range(awardIds) :
                     Cardinality({k \in 1..Len(batches) : id \in Range(batches[k].ids)}) = 1

\* a finished run of three identifiers in batches of two: two batches, the
\* last of one identifier
C9_Witness ==
    /\ pc = "done"
    /\ Len(awardIds) = 3
    /\ batchSizeOf(config) = 2
    /\ Len(batches) = 2
    /\ Len(batches[1].ids) = 2
    /\ Len(batches[2].ids) = 1

\* C10: in every report, missingAwardIds lists, once each, exactly the
\* identifiers extracted in stage 1 that are the award_id of no returned
\* (deduplicated) award.
C10_MissingIdsExact ==
    pc = "done" =>
        LET missing == result.stats.missingAwardIds
        IN /\ Range(missing) = Range(txResult.uniqueAwardIds) \ awardIdSet(result.awards)
           /\ Len(missing) = Cardinality(Range(missing))

\* a report with one identifier fetched and another missing
C10_Witness ==
    /\ pc = "done"
    /\ Len(txResult.uniqueAwardIds) >= 2
    /\ Len(result.stats.missingAwardIds) >= 1
    /\ \E id \in Range(txResult.uniqueAwardIds) : id \in awardIdSet(result.awards)

\* C11 as stated: in every report of fetchComplete, awardsMissing is the
\* number of entries of missingAwardIds and is not negative.
C11_MissingCountExact ==
    pc = "done" =>
        /\ result.stats.awardsMissing = Len(result.stats.missingAwardIds)
        /\ result.stats.awardsMissing >= 0
        /\ result.stats.awardsMissing
               = result.stats.awardsRequested - result.stats.awardsFetched

\* stage 1 of fetchComplete has returned
Stage1Returned == pc \in {"stage2", "done"}

DescNew == <<"N", "E", "W">>

\* the sequence-zero modification number and a later one
ModZero == <<"0">>
Mod001 == <<"0", "0", "1">>

\* the amount threshold of the run lets the transaction through
PassesAmount(tx) ==
    config.min_amount > 0 => tx.federal_action_obligation >= config.min_amount

\* the transaction is among those stage 1 returned
Retained(tx) == tx \in Range(txResult.newTransactions)

\* C12 as stated: of the transactions stage 1 fetched, one with
\* modification_number null and action-type description NEW is retained by
\* the new-event filter (it is returned if it also passes the amount
\* threshold), and every one with modification_number "001" is excluded.
C12_NewEventScenario ==
    Stage1Returned =>
        \A i \in 1..Len(allTransactions) :
            LET tx == allTransactions[i]
            IN /\ (/\ tx.modification_number = NULL
                   /\ tx.action_type_description = DescNew
                   /\ PassesAmount(tx)) => Retained(tx)
               /\ tx.modification_number = Mod001 => ~Retained(tx)

\* C12 amended: a transaction with modification_number null and action-type
\* description NEW is retained; a transaction with modification_number "001"
\* is excluded if its action-type description is not NEW, and retained (when
\* it passes the amount threshold) if it is NEW.
C12_NewEventScenarioUnlessNew ==
    Stage1Returned =>
        \A i \in 1..Len(allTransactions) :
            LET tx == allTransactions[i]
            IN /\ (/\ tx.modification_number = NULL
                   /\ tx.action_type_description = DescNew
                   /\ PassesAmount(tx)) => Retained(tx)
               /\ tx.modification_number = Mod001 =>
                      (Retained(tx) <=>
                           tx.action_type_description = DescNew /\ PassesAmount(tx))

\* stage 1 fetched a null/NEW transaction, a "001" revision and a "001"
\* transaction described as NEW: the first and the last were returned
C12_Witness ==
    /\ Stage1Returned
    /\ config.min_amount = 0
    /\ \E i, j, k \in 1..Len(allTransactions) :
           /\ allTransactions[i].modification_number = NULL
           /\ allTransactions[i].action_type_description = DescNew
           /\ allTransactions[j].modification_number = Mod001
           /\ allTransactions[j].action_type_description # DescNew
           /\ allTransactions[k].modification_number = Mod001
           /\ allTransactions[k].action_type_description = DescNew
    /\ Len(txResult.newTransactions) = 2

\* the new-award event of the design: sequence zero, or described as NEW
IsNewEvent(tx) ==
    \/ tx.modification_number = ModZero
    \/ tx.action_type_description = DescNew

\* the transactions of allTransactions that are new-award events and pass
\* the amount threshold, in their order
RetainedOf(fetched) ==
    LET keep(tx) == IsNewEvent(tx) /\ PassesAmount(tx)
    IN SelectSeq(fetched, keep)

\* C13: a transaction stage 1 returns has modification_number '0' or
\* action_type_description 'NEW', and when no amount threshold is configured
\* stage 1 returns exactly the fetched transactions that have, in their
\* order: all the others are dropped.
C13_NewEventFilterIff ==
    Stage1Returned =>
        /\ \A i \in 1..Len(txResult.newTransactions) :
               IsNewEvent(txResult.newTransactions[i])
        /\ config.min_amount <= 0 =>
               /\ txResult.newTransactions = SelectSeq(allTransactions, IsNewEvent)
               /\ \A i \in 1..Len(allTransactions) :
                      Retained(allTransactions[i]) <=> IsNewEvent(allTransactions[i])

\* without a threshold, stage 1 fetched a sequence-zero revision and a later
\* revision, kept the first and dropped the second
C13_Witness ==
    /\ Stage1Returned
    /\ config.min_amount = 0
    /\ \E i, j \in 1..Len(allTransactions) :
           /\ allTransactions[i].modification_number = ModZero
           /\ allTransactions[i].action_type_description # DescNew
           /\ Retained(allTransactions[i])
           /\ allTransactions[j].modification_number = Mod001
           /\ allTransactions[j].action_type_description # DescNew
           /\ ~Retained(allTransactions[j])

\* C14: with min_amount > 0, a new-award transaction is returned by stage 1
\* if and only if its federal_action_obligation >= min_amount (at 900000, one
\* of 899999 is dropped and one of 900000 is kept); with min_amount not above
\* zero every new-award transaction is returned, in order.
C14_AmountThreshold ==
    Stage1Returned =>
        LET newOnes == SelectSeq(allTransactions, IsNewEvent)
            atLeast(tx) == tx.federal_action_obligation >= config.min_amount
        IN /\ config.min_amount > 0 =>
                  /\ txResult.newTransactions = SelectSeq(newOnes, atLeast)
                  /\ \A i \in 1..Len(newOnes) :
                         Retained(newOnes[i]) <=> atLeast(newOnes[i])
           /\ config.min_amount = 900000 =>
                  \A i \in 1..Len(newOnes) :
                      /\ newOnes[i].federal_action_obligation = 899999
                             => ~Retained(newOnes[i])
                      /\ newOnes[i].federal_action_obligation = 900000
                             => Retained(newOnes[i])
           /\ ~(config.min_amount > 0) => txResult.newTransactions = newOnes

\* at min_amount 900000, stage 1 fetched new-award transactions of 899999 and
\* of 900000 and returned only the second
C14_Witness ==
    /\ Stage1Returned
    /\ config.min_amount = 900000
    /\ Len(allTransactions) = 2
    /\ IsNewEvent(allTransactions[1])
    /\ allTransactions[1].federal_action_obligation = 899999
    /\ IsNewEvent(allTransactions[2])
    /\ allTransactions[2].federal_action_obligation = 900000
    /\ txResult.newTransactions = << allTransactions[2] >>

\* C15: the identifier list handed to stage 2 is the list stage 1 returned;
\* it has no duplicate and its members are exactly the award_id values of
\* the transactions that passed the new-event filter and the amount
\* threshold, which are the transactions stage 1 returned.
C15_IdsOfRetained ==
    Stage1Returned =>
        LET retained == RetainedOf(allTransactions)
        IN /\ awardIds = txResult.uniqueAwardIds
           /\ Len(awardIds) = Cardinality(Range(awardIds))
           /\ Range(awardIds) = {retained[i].award_id : i \in 1..Len(retained)}
           /\ txResult.newTransactions = retained

\* two retained transactions of one award and a filtered-out one of another
\* gave a list of one identifier
C15_Witness ==
    /\ Stage1Returned
    /\ Len(allTransactions) = 3
    /\ Len(txResult.newTransactions) = 2
    /\ txResult.newTransactions[1].award_id = txResult.newTransactions[2].award_id
    /\ \E i \in 1..3 : allTransactions[i].award_id \notin Range(awardIds)
    /\ Len(awardIds) = 1

\* C16: when a page request of stage 1 of fetch:complete fails, the run ends
\* in that step: no request is awaited any more, no batch of stage 2 was or
\* is ever started, no complete_* file is written, one diagnostic goes to
\* stderr and the process exits with status 1; the run stays that way.
C16_Stage1FailureAborts ==
    /\ [][(pc = "stage1" /\ CallThrows) =>
              /\ pc' = "failed"
              /\ inflight' = NoRequest
              /\ batches' = <<>>
              /\ saved' = NoResult
              /\ result' = NoResult
              /\ Len(stderr') = Len(stderr) + 1
              /\ exitCode' = <<1>>]_vars
    /\ [][pc = "failed" => pc' = "failed" /\ inflight' = NoRequest]_vars
    /\ [](pc = "failed" =>
              /\ inflight = NoRequest
              /\ batches = <<>>
              /\ saved = NoResult
              /\ stderr # <<>>
              /\ exitCode = <<1>>)

\* a fetch:complete run whose stage 1 failed on its second page
C16_Witness ==
    /\ command = "fetch:complete"
    /\ pc = "failed"
    /\ lastCall.n = 1
    /\ lastCall.status = "threw"
    /\ lastCall.pages = 2
    /\ exitCode = <<1>>
    /\ saved = NoResult

\* the engine displayed its truncation warning for the transactions of stage 1
Stage1Truncated ==
    \E k \in 1..Len(warnings) : warnings[k].dataType = "transaction"

\* C17 as stated: a fetch:complete run whose stage 1 was detected as possibly
\* truncated completes with status 0 and writes its report, and the report
\* (complete_stats, the stats of the returned result) carries a truncation
\* flag that is set.
C17_TruncationInReport ==
    (command = "fetch:complete" /\ pc = "done" /\ Stage1Truncated) =>
        /\ exitCode = <<0>>
        /\ saved # NoResult
        /\ "truncated" \in DOMAIN saved.complete_stats
        /\ saved.complete_stats.truncated = TRUE
        /\ "truncated" \in DOMAIN result.stats

\* C18: in a finished fetch run the summary's truncated flag is true exactly
\* when 10000 awards were fetched, the summary saved is that summary, and so
\* whenever the engine displayed its truncation warning the saved summary
\* has truncated = true.
C18_AwardSummaryTruncated ==
    (command = "fetch" /\ pc = "done") =>
        /\ summary.truncated <=> Len(saved.awards_normalized) = 10000
        /\ lastCall.total = Len(saved.awards_normalized)
        /\ saved.awards_summary = summary
        /\ warnings # <<>> => saved.awards_summary.truncated = TRUE

\* a finished fetch run whose warning was displayed and whose saved summary
\* is flagged
C18_Witness ==
    /\ command = "fetch"
    /\ pc = "done"
    /\ warnings # <<>>
    /\ saved.awards_summary.truncated = TRUE
    /\ saved.awards_summary.total_records = 10000

\* C19 as stated: the summary of a finished fetch:transactions run that
\* fetched exactly 10000 transactions carries truncated = true.
C19_TransactionSummaryTruncated ==
    (command = "fetch:transactions" /\ pc = "done"
         /\ Len(saved.transactions_normalized) = 10000) =>
        /\ "truncated" \in DOMAIN summary
        /\ summary.truncated = TRUE
        /\ saved.transactions_summary = summary

\* C20: a request is awaited exactly while a collection call runs, and it is
\* the request of the page after the pages received so far in that call;
\* only the last batch started can be running, and only during stage 2, the
\* batches before it having finished (ok or failed); and a request of stage 2
\* is awaited only once the collection call of stage 1 has returned, one
\* call having finished for stage 1 and one for every batch before the
\* current one.
C20_OneRequestInFlight ==
    /\ inflight = NoRequest <=> pc \in {"idle", "done", "failed"}
    /\ inflight # NoRequest =>
           /\ inflight.page = Len(responses) + 1
           /\ inflight.page = currentPage
    /\ \A k \in 1..Len(batches) :
           /\ batches[k].status \in {"running", "ok", "failed"}
           /\ batches[k].status = "running" <=> (k = Len(batches) /\ pc = "stage2")
    /\ pc = "stage1" =>
           /\ inflight.endpoint = "transaction"
           /\ batches = <<>>
           /\ lastCall.n = 0
    /\ pc = "stage2" =>
           /\ inflight.endpoint = "award"
           /\ inflight.filters.award_ids = batches[Len(batches)].ids
           /\ lastCall.n = Len(batches)
           /\ txResult.totalTransactions = Len(allTransactions)

\* the second page of the second batch is awaited, the first batch having
\* finished
C20_Witness ==
    /\ pc = "stage2"
    /\ Len(batches) = 2
    /\ batches[1].status = "ok"
    /\ batches[2].status = "running"
    /\ inflight.page = 2
    /\ Len(responses) = 1
    /\ Len(allTransactions) >= 2

\* the records of the successful batches, appended in the order perm
RECURSIVE ResultsInOrder(_, _, _)
ResultsInOrder(blog, perm, k) ==
    IF k = 0 THEN <<>>
    ELSE ResultsInOrder(blog, perm, k - 1)
             \o (IF blog[perm[k]].status = "ok" THEN blog[perm[k]].results ELSE <<>>)

\* the last_modified_date a list of awards holds for an award_id
DateOf(awards, id) ==
    LET i == CHOOSE j \in 1..Len(awards) : awards[j].award_id = id
    IN awards[i].last_modified_date

\* C21: whatever the order in which the results of the batches of a finished
\* run are appended, deduplication yields the award_ids of the report, one
\* record for each, with the last_modified_date the report has for it.
C21_DedupOrderIndependent ==
    pc = "done" =>
        \A perm \in Permutations(1..Len(batches)) :
            LET appended == ResultsInOrder(batches, perm, Len(batches))
                deduped == dedupeAwards(normalizeAwards(appended))
            IN /\ awardIdSet(deduped) = awardIdSet(result.awards)
               /\ Len(deduped) = Len(result.awards)
               /\ \A id \in awardIdSet(deduped) :
                      DateOf(deduped, id) = DateOf(result.awards, id)

\* two batches returned snapshots of the same award, the later snapshot
\* first, and the report holds the later one
C21_Witness ==
    /\ pc = "done"
    /\ Len(batches) = 2
    /\ batches[1].status = "ok"
    /\ batches[2].status = "ok"
    /\ Len(batches[1].results) = 1
    /\ Len(batches[2].results) = 1
    /\ normalizeAward(batches[1].results[1]).award_id = IdA
    /\ normalizeAward(batches[2].results[1]).award_id = IdA
    /\ normalizeAward(batches[1].results[1]).last_modified_date = DateLate
    /\ normalizeAward(batches[2].results[1]).last_modified_date = DateEarly
    /\ Len(result.awards) = 1
    /\ result.awards[1].last_modified_date = DateLate

\* a step in which a page arrives and the call goes on: the next request
CallGoesOn == inflight # NoRequest /\ Len(responses') = Len(responses) + 1

\* a step in which a page arrives and the call returns
CallReturns == lastCall'.n = lastCall.n + 1 /\ lastCall'.status = "returned"

\* C22: a collection call starts with page 1; when page p has arrived, page
\* p + 1 of the same query is requested if and only if page p carried
\* hasNext = true and the records accumulated up to page p are fewer than
\* pagination.max_records; otherwise the call returns having requested
\* pages 1..p, and no further page of it is requested.
C22_PageSequence ==
    /\ [][CallGoesOn =>
              LET page == responses'[Len(responses')]
              IN /\ page.hasNext = TRUE
                 /\ totalFetched' = totalFetched + Len(page.results)
                 /\ totalFetched' < config.max_records
                 /\ inflight'.page = inflight.page + 1
                 /\ inflight'.endpoint = inflight.endpoint
                 /\ inflight'.filters = inflight.filters
                 /\ lastCall' = lastCall]_vars
    /\ [][CallReturns =>
              /\ ~(lastCall'.lastHasNext /\ lastCall'.total < config.max_records)
              /\ lastCall'.pages = inflight.page
              /\ inflight' # NoRequest => inflight'.page = 1]_vars
    /\ [][(inflight # NoRequest /\ inflight' # NoRequest /\ inflight' # inflight) =>
              \/ CallGoesOn
              \/ inflight'.page = 1 /\ lastCall'.n = lastCall.n + 1]_vars
    /\ [][(inflight = NoRequest /\ inflight' # NoRequest) => inflight'.page = 1]_vars

\* a call that returned after its first page because the ceiling was
\* reached although the source announced a further page
C22_Witness ==
    /\ lastCall.n >= 1
    /\ lastCall.status = "returned"
    /\ lastCall.pages = 1
    /\ lastCall.lastHasNext = TRUE
    /\ lastCall.total >= config.max_records

\* C23 as stated: when the configuration file lacks any key the core reads,
\* loading fails: once loadConfig is over the run has failed with one
\* "Missing required config" diagnostic and exit status 1, and no request
\* has been issued nor any collection call made.
C23_MissingKeyFailsFast ==
    (configFile # ConfigKeys /\ pc # "loading") =>
        /\ pc = "failed"
        /\ inflight = NoRequest
        /\ lastCall.n = 0
        /\ Len(stderr) = 1
        /\ stderr[1] # "Error:"
        /\ exitCode = <<1>>
        /\ saved = NoResult

\* the segments joined again with underscores
RECURSIVE JoinSegments(_)
JoinSegments(parts) ==
    IF Len(parts) = 0 THEN <<>>
    ELSE IF Len(parts) = 1 THEN parts[1]
    ELSE parts[1] \o <<"_">> \o JoinSegments(Tail(parts))

\* parts are the underscore-delimited segments of s
IsSegmentsOf(parts, s) ==
    /\ JoinSegments(parts) = s
    /\ \A k \in 1..Len(parts) : \A j \in 1..Len(parts[k]) : parts[k][j] # "_"

\* fetch:transactions has written its raw and normalized files
NormalizedTransactionsSaved ==
    /\ pc = "done"
    /\ command = "fetch:transactions"
    /\ "transactions_raw" \in DOMAIN saved

\* C24: when the raw Award ID is all digits with length <= 4 and
\* generated_internal_id has at least 6 underscore-delimited segments of which
\* the fifth is longer than 4 characters, the normalized award_id is that fifth
\* segment ("0001" with "CONT_AWD_0001_9700_W52P1J13G0027_9700" gives
\* "W52P1J13G0027"); in every other case (composite absent or malformed, Award
\* ID not a short all-digit string) award_id is the raw Award ID unchanged.
C24_ShortIdRecovered ==
    NormalizedTransactionsSaved =>
        \A i \in 1..Len(saved.transactions_raw) :
            LET raw == saved.transactions_raw[i]
                out == saved.transactions_normalized[i].award_id
                id == Get(raw, "Award ID")
                gen == Get(raw, "generated_internal_id")
                short == /\ id \notin {UNDEF, NULL}
                         /\ Len(id) \in 1..4
                         /\ \A k \in 1..Len(id) :
                               id[k] \in {"0", "1", "2", "3", "4", "5", "6", "7", "8", "9"}
                parts == IF gen \in {UNDEF, NULL} THEN <<>> ELSE Split(gen)
                recoverable == /\ short
                               /\ gen \notin {UNDEF, NULL}
                               /\ Len(parts) >= 6
                               /\ Len(parts[5]) > 4
            IN /\ gen \notin {UNDEF, NULL} => IsSegmentsOf(parts, gen)
               /\ recoverable => out = parts[5]
               /\ ~recoverable => out = id
               /\ (id = ShortId /\ gen = LongCompositeId) => out = LongId

\* two records with the short identifier are saved: one with the composite
\* of the scenario, recovered, and one with a composite of five segments, kept
C24_Witness ==
    /\ NormalizedTransactionsSaved
    /\ Len(saved.transactions_raw) = 2
    /\ Get(saved.transactions_raw[1], "Award ID") = ShortId
    /\ Get(saved.transactions_raw[1], "generated_internal_id") = LongCompositeId
    /\ saved.transactions_normalized[1].award_id = LongId
    /\ Get(saved.transactions_raw[2], "Award ID") = ShortId
    /\ Len(Split(Get(saved.transactions_raw[2], "generated_internal_id"))) = 5
    /\ saved.transactions_normalized[2].award_id = ShortId

\* fetch has written its raw and normalized files
NormalizedAwardsSaved ==
    /\ pc = "done"
    /\ command = "fetch"
    /\ "awards_raw" \in DOMAIN saved

\* the raw record holds none but identifier fields
OptionalFieldsAbsent(raw) ==
    DOMAIN raw \subseteq {"Award ID", "internal_id", "generated_internal_id"}

\* C25: normalizeAward and normalizeTransaction return, for a raw record in
\* which every optional field is absent, a record of which every optional
\* field holds its documented default (empty string, null, zero or empty
\* set) and none is undefined.
C25_DefaultsForAbsent ==
    /\ NormalizedAwardsSaved =>
           /\ Len(saved.awards_normalized) = Len(saved.awards_raw)
           /\ \A i \in 1..Len(saved.awards_raw) :
                  LET a == saved.awards_normalized[i]
                  IN OptionalFieldsAbsent(saved.awards_raw[i]) =>
                         /\ a.award_amount = 0
                         /\ a.award_date = <<>>
                         /\ a.start_date = NULL
                         /\ a.end_date = NULL
                         /\ a.last_modified_date = NULL
                         /\ a.base_obligation_date = NULL
                         /\ a.awarding_agency = <<>>
                         /\ a.awarding_sub_agency = NULL
                         /\ a.funding_agency = NULL
                         /\ a.recipient_name = <<>>
                         /\ a.recipient_uei = NULL
                         /\ a.recipient_business_categories = {}
                         /\ a.award_description = <<>>
                         /\ a.naics_code = NULL
                         /\ a.psc_code = NULL
                         /\ a.place_of_performance_state = NULL
    /\ NormalizedTransactionsSaved =>
           /\ Len(saved.transactions_normalized) = Len(saved.transactions_raw)
           /\ \A i \in 1..Len(saved.transactions_raw) :
                  LET t == saved.transactions_normalized[i]
                  IN OptionalFieldsAbsent(saved.transactions_raw[i]) =>
                         /\ t.action_date = <<>>
                         /\ t.action_type = <<>>
                         /\ t.modification_number = NULL
                         /\ t.federal_action_obligation = 0
                         /\ t.total_dollars_obligated = 0
                         /\ t.award_description = <<>>
                         /\ t.period_of_performance_start_date = NULL
                         /\ t.period_of_performance_current_end_date = NULL
                         /\ t.awarding_agency_name = <<>>
                         /\ t.awarding_sub_agency_name = NULL
                         /\ t.funding_agency_name = NULL
                         /\ t.recipient_name = <<>>
                         /\ t.recipient_uei = NULL
                         /\ t.naics_code = NULL
                         /\ t.product_or_service_code = NULL
                         /\ t.place_of_performance_state = NULL

\* fetchComplete has returned its result
CompleteReturned == pc = "done" /\ command = "fetch:complete"

\* sub is obtained from s by leaving records out: same records, same order
RECURSIVE IsSubsequence(_, _)
IsSubsequence(sub, s) ==
    IF sub = <<>> THEN TRUE
    ELSE IF s = <<>> THEN FALSE
    ELSE IF Head(sub) = Head(s) THEN IsSubsequence(Tail(sub), Tail(s))
    ELSE IsSubsequence(sub, Tail(s))

\* C26: the transaction list fetchComplete returns is an order-preserving
\* sub-sequence of the normalized stage-1 transactions, each retained record
\* being unchanged, and it is never deduplicated: it has one entry for every
\* fetched transaction that passes the filters, also when two of them have
\* the same transaction_id or award_id.
C26_FiltersOnlySelect ==
    CompleteReturned =>
        /\ IsSubsequence(result.transactions, allTransactions)
        /\ \A i \in 1..Len(result.transactions) :
               result.transactions[i] \in Range(allTransactions)
        /\ Len(result.transactions)
               = Cardinality({i \in 1..Len(allTransactions) :
                                 IsNewEvent(allTransactions[i])
                                 /\ PassesAmount(allTransactions[i])})
        /\ result.stats.newTransactions = Len(result.transactions)

\* three transactions were fetched, the first and the third with the same
\* transaction_id and award_id and both passing the filters, the second
\* filtered out: both are returned
C26_Witness ==
    /\ CompleteReturned
    /\ Len(allTransactions) = 3
    /\ allTransactions[1].transaction_id = allTransactions[3].transaction_id
    /\ allTransactions[1].award_id = allTransactions[3].award_id
    /\ ~IsNewEvent(allTransactions[2])
    /\ result.transactions = << allTransactions[1], allTransactions[3] >>

\* stage 2 ran at least one batch and every batch it ran failed
AllBatchesFailed ==
    /\ batches # <<>>
    /\ \A k \in 1..Len(batches) : batches[k].status = "failed"

MatchedPositions ==
    {i \in 1..Len(result.transactions) :
        \E k \in 1..Len(result.awards) :
            result.awards[k].award_id = result.transactions[i].award_id}
UnmatchedPositions ==
    {i \in 1..Len(result.transactions) :
        \A k \in 1..Len(result.awards) :
            result.awards[k].award_id # result.transactions[i].award_id}

\* C28: in every report of fetchComplete, transactionsWithAward +
\* transactionsWithoutAward equals newTransactions, the number of returned
\* transactions, and each returned transaction is counted in exactly one of
\* the two tallies: in the first if its award was returned, else in the second.
C28_TalliesPartition ==
    CompleteReturned =>
        /\ result.stats.newTransactions = Len(result.transactions)
        /\ result.stats.transactionsWithAward + result.stats.transactionsWithoutAward
               = result.stats.newTransactions
        /\ result.stats.transactionsWithAward = Cardinality(MatchedPositions)
        /\ result.stats.transactionsWithoutAward = Cardinality(UnmatchedPositions)
        /\ MatchedPositions \cap UnmatchedPositions = {}
        /\ MatchedPositions \cup UnmatchedPositions = 1..Len(result.transactions)

\* three transactions were returned, two of them of one award that was
\* fetched and one of an award that was not
C28_Witness ==
    /\ CompleteReturned
    /\ Len(result.transactions) = 3
    /\ result.transactions[1].award_id = result.transactions[2].award_id
    /\ result.stats.transactionsWithAward = 2
    /\ result.stats.transactionsWithoutAward = 1

\* C29: in every report of fetchComplete, a returned transaction is unmatched
\* exactly when its award_id is listed in missingAwardIds, so that
\* transactionsWithoutAward is 0 if and only if missingAwardIds is empty.
C29_UnmatchedIffMissing ==
    CompleteReturned =>
        /\ \A i \in 1..Len(result.transactions) :
               i \in UnmatchedPositions
                   <=> result.transactions[i].award_id
                           \in Range(result.stats.missingAwardIds)
        /\ result.stats.transactionsWithoutAward = 0
               <=> result.stats.missingAwardIds = <<>>
        /\ \A k \in 1..Len(result.stats.missingAwardIds) :
               \E i \in UnmatchedPositions :
                   result.transactions[i].award_id = result.stats.missingAwardIds[k]

\* two identifiers were requested and only an award of neither came back:
\* both are missing and both transactions are unmatched
C29_Witness ==
    /\ CompleteReturned
    /\ Len(result.transactions) = 2
    /\ Len(result.awards) = 1
    /\ Len(result.stats.missingAwardIds) = 2
    /\ result.stats.transactionsWithoutAward = 2

\* C30: every collection call (fetchAllAwards / fetchAllTransactions)
\* eventually returns or throws whenever each of its page requests is
\* answered, also by a source that reports hasNext = true on every page and
\* sends pages with zero results; the number of page requests of a call is
\* bounded by the safety ceiling pagination.max_records.
C30_CallTerminates ==
    /\ [](inflight # NoRequest => inflight.page <= config.max_records)
    /\ [](inflight # NoRequest => <>(inflight = NoRequest))

====
